---------------------------- MODULE Spec2Model ----------------------------
(***************************************************************************)
(* Model of tk-nuke's software launcher (startup.py): the scan for         *)
(* installed Nuke executables and bundles, and their expansion into        *)
(* product variations.                                                     *)
(*                                                                         *)
(* A Python string is a sequence of one-character strings, so that         *)
(* replace, strip, split, lower, "in", glob matching and regex matching    *)
(* are computed character by character as the code computes them.          *)
(***************************************************************************)
EXTENDS Integers, Sequences, FiniteSets, TLC

(***************************************************************************)
(* Python string primitives used by startup.py                             *)
(***************************************************************************)

\* Python's None, distinct from every string (its element is no character).
None == <<"None">>

UpperLetters == <<"A","B","C","D","E","F","G","H","I","J","K","L","M","N","O","P","Q","R","S","T","U","V","W","X","Y","Z">>
LowerLetters == <<"a","b","c","d","e","f","g","h","i","j","k","l","m","n","o","p","q","r","s","t","u","v","w","x","y","z">>
Digits == {"0", "1", "2", "3", "4", "5", "6", "7", "8", "9"}
Whitespace == {" ", "\t", "\n", "\r"}

Range(s) == {s[i] : i \in 1..Len(s)}

UpperToLower ==
    [c \in Range(UpperLetters) |-> LowerLetters[CHOOSE i \in 1..26 : UpperLetters[i] = c]]

LowerToUpper ==
    [c \in Range(LowerLetters) |-> UpperLetters[CHOOSE i \in 1..26 : LowerLetters[i] = c]]

\* str.lower() on one character
LowerChar(c) == IF c \in DOMAIN UpperToLower THEN UpperToLower[c] ELSE c

\* str.upper() on one character
UpperChar(c) == IF c \in DOMAIN LowerToUpper THEN LowerToUpper[c] ELSE c

\* str.lower()
Lower(s) == [i \in 1..Len(s) |-> LowerChar(s[i])]

\* s[i:] starts with sub (i is 1-based)
StartsWithAt(s, i, sub) ==
    /\ i + Len(sub) - 1 <= Len(s)
    /\ \A k \in 1..Len(sub) : s[i + k - 1] = sub[k]

\* str.find(sub, start): the first position at or after i where sub occurs in s,
\* 0 when there is none (positions are 1-based)
RECURSIVE Find(_, _, _)
Find(s, sub, i) ==
    IF i + Len(sub) - 1 > Len(s) THEN 0
    ELSE IF StartsWithAt(s, i, sub) THEN i
    ELSE Find(s, sub, i + 1)

\* Python's  sub in s
Contains(s, sub) == Find(s, sub, 1) # 0

\* str.replace(old, new): leftmost, non-overlapping occurrences
RECURSIVE Replace(_, _, _)
Replace(s, old, new) ==
    LET i == Find(s, old, 1)
    IN IF i = 0 \/ Len(old) = 0 THEN s
       ELSE SubSeq(s, 1, i - 1) \o new \o Replace(SubSeq(s, i + Len(old), Len(s)), old, new)

\* str.strip(): leading and trailing whitespace removed
RECURSIVE LStrip(_)
LStrip(s) == IF s # <<>> /\ Head(s) \in Whitespace THEN LStrip(Tail(s)) ELSE s

RECURSIVE RStrip(_)
RStrip(s) ==
    IF s # <<>> /\ s[Len(s)] \in Whitespace THEN RStrip(SubSeq(s, 1, Len(s) - 1)) ELSE s

Strip(s) == RStrip(LStrip(s))

\* s.split(sep, 1)[0]: the text before the first sep, all of s when there is none
SplitFirst(s, sep) ==
    IF Find(s, sep, 1) # 0 THEN SubSeq(s, 1, Find(s, sep, 1) - 1) ELSE s

\* s.split(sep): the list of pieces between the occurrences of the character sep
RECURSIVE SplitAll(_, _)
SplitAll(s, sep) ==
    LET i == Find(s, <<sep>>, 1)
    IN IF i = 0 THEN <<s>>
       ELSE <<SubSeq(s, 1, i - 1)>> \o SplitAll(SubSeq(s, i + 1, Len(s)), sep)

\* sep.join(parts)
RECURSIVE Join(_, _)
Join(parts, sep) ==
    IF parts = <<>> THEN <<>>
    ELSE IF Len(parts) = 1 THEN parts[1]
    ELSE parts[1] \o sep \o Join(Tail(parts), sep)

\* template % (value,)  for a template with one "%s" slot
PercentFormat(template, value) ==
    LET i == Find(template, <<"%","s">>, 1)
    IN IF i = 0 THEN template
       ELSE SubSeq(template, 1, i - 1) \o value \o SubSeq(template, i + 2, Len(template))

\* [f(x) for x in list]
MapSeq(Op(_), list) == [i \in 1..Len(list) |-> Op(list[i])]

(***************************************************************************)
(* Module-level helpers of startup.py                                      *)
(***************************************************************************)

\* "NukeX %s Non-commercial" becomes "NukeX Non-commercial"
_template_to_variation_name(template) ==
    Strip(Replace(Replace(template, <<"%","s">>, <<>>), <<" "," ">>, <<" ">>))

\* for key, value in tokens.iteritems(): template.replace("{%s}" % key, value)
\* (the keys are distinct and no value holds "{key}", so the order of the
\* dictionary's items does not change the result)
RECURSIVE FormatKeys(_, _, _)
FormatKeys(template, tokens, keys) ==
    IF keys = {} THEN template
    ELSE LET key == CHOOSE k \in keys : TRUE
         IN FormatKeys(Replace(template, <<"{">> \o key \o <<"}">>, tokens[key]),
                       tokens, keys \ {key})

_format(template, tokens) == FormatKeys(template, tokens, DOMAIN tokens)

(***************************************************************************)
(* Class constants of NukeLauncher                                         *)
(***************************************************************************)

ComponentKeys ==
    {<<"v","e","r","s","i","o","n">>, <<"v","a","r","i","a","n","t">>, <<"s","u","f","f","i","x">>, <<"s","a","m","e","_","v","e","r","s","i","o","n">>, <<"m","a","j","o","r","_","m","i","n","o","r","_","v","e","r","s","i","o","n">>}

COMPONENT_GLOB_LOOKUP == [k \in ComponentKeys |-> <<"*">>]

\* One regex fragment is one element of the formatted pattern; every other
\* element of a pattern is a single character of regex text.
RE_version == "(?P<version>[\\d.v]+)"
RE_variant == "(?P<variant>[\\w\\s]+)"
RE_suffix == "(?P<suffix> Non-commercial| PLE){0,1}"
RE_same_version == "(?P=version)"
RE_major_minor_version == "(?P<major_minor_version>[\\d.]+)"

COMPONENT_REGEX_LOOKUP ==
    [k \in ComponentKeys |->
        CASE k = <<"v","e","r","s","i","o","n">> -> <<RE_version>>
          [] k = <<"v","a","r","i","a","n","t">> -> <<RE_variant>>
          [] k = <<"s","u","f","f","i","x">> -> <<RE_suffix>>
          [] k = <<"s","a","m","e","_","v","e","r","s","i","o","n">> -> <<RE_same_version>>
          [] k = <<"m","a","j","o","r","_","m","i","n","o","r","_","v","e","r","s","i","o","n">> -> <<RE_major_minor_version>>]

NUKE_7_8_VARIATION_DISPLAY_NAME_TEMPLATES ==
    << <<"N","u","k","e"," ","%","s">>,
       <<"N","u","k","e","X"," ","%","s">>,
       <<"N","u","k","e"," ","%","s"," ","P","L","E">>,
       <<"N","u","k","e","A","s","s","i","s","t"," ","%","s">> >>

NUKE_7_8_VARIATIONS ==
    MapSeq(_template_to_variation_name, NUKE_7_8_VARIATION_DISPLAY_NAME_TEMPLATES)

NUKE_9_OR_HIGHER_VARIATION_DISPLAY_NAME_TEMPLATES ==
    << <<"N","u","k","e"," ","%","s">>,
       <<"N","u","k","e"," ","%","s"," ","N","o","n","-","c","o","m","m","e","r","c","i","a","l">>,
       <<"N","u","k","e","A","s","s","i","s","t"," ","%","s">>,
       <<"N","u","k","e","S","t","u","d","i","o"," ","%","s">>,
       <<"N","u","k","e","S","t","u","d","i","o"," ","%","s"," ","N","o","n","-","c","o","m","m","e","r","c","i","a","l">>,
       <<"N","u","k","e","X"," ","%","s">>,
       <<"N","u","k","e","X"," ","%","s"," ","N","o","n","-","c","o","m","m","e","r","c","i","a","l">>,
       <<"H","i","e","r","o"," ","%","s">> >>

NUKE_9_OR_HIGHER_VARIATIONS ==
    MapSeq(_template_to_variation_name, NUKE_9_OR_HIGHER_VARIATION_DISPLAY_NAME_TEMPLATES)

\* The home directory os.path.expanduser("~") resolves to
HomeDirectory == <<"/","h","o","m","e","/","a","r","t","i","s","t">>

\* os.path.expanduser(path): a leading "~" becomes the home directory
expanduser(path) ==
    IF path # <<>> /\ Head(path) = "~" /\ (Len(path) = 1 \/ path[2] = "/")
    THEN HomeDirectory \o Tail(path)
    ELSE path

SupportedPlatforms == {"darwin", "win32", "linux2"}

EXECUTABLE_MATCH_TEMPLATES ==
    [p \in SupportedPlatforms |->
        CASE p = "darwin" ->
               << <<"/","A","p","p","l","i","c","a","t","i","o","n","s","/","N","u","k","e","{","v","e","r","s","i","o","n","}","/","{","v","a","r","i","a","n","t","}","{","s","a","m","e","_","v","e","r","s","i","o","n","}","{","s","u","f","f","i","x","}",".","a","p","p">> >>
          [] p = "win32" ->
               << <<"C",":","/","P","r","o","g","r","a","m"," ","F","i","l","e","s","/","N","u","k","e","{","v","e","r","s","i","o","n","}","/","N","u","k","e","{","m","a","j","o","r","_","m","i","n","o","r","_","v","e","r","s","i","o","n","}",".","e","x","e">> >>
          [] p = "linux2" ->
               << <<"/","u","s","r","/","l","o","c","a","l","/","N","u","k","e","{","v","e","r","s","i","o","n","}","/","N","u","k","e","{","m","a","j","o","r","_","m","i","n","o","r","_","v","e","r","s","i","o","n","}">>,
                  expanduser(<<"~","/","N","u","k","e","{","v","e","r","s","i","o","n","}","/","N","u","k","e","{","m","a","j","o","r","_","m","i","n","o","r","_","v","e","r","s","i","o","n","}">>) >>]

(***************************************************************************)
(* glob.glob over the files on disk                                        *)
(***************************************************************************)

\* os.sep
os_sep(platform) == IF platform = "win32" THEN "\\" ELSE "/"

\* os.path.normcase: lower case on Windows, unchanged elsewhere
normcase(platform, s) == IF platform = "win32" THEN Lower(s) ELSE s

\* glob.has_magic on one path component
has_magic(component) == \E i \in 1..Len(component) : component[i] \in {"*", "?", "["}

\* fnmatch of name[i..] against pat[j..], for patterns whose only wildcard is "*"
RECURSIVE FnMatchAt(_, _, _, _)
FnMatchAt(name, i, pat, j) ==
    IF j > Len(pat) THEN i > Len(name)
    ELSE IF pat[j] = "*"
         THEN IF j < Len(pat) /\ pat[j + 1] = "*"
              THEN FnMatchAt(name, i, pat, j + 1)
              ELSE \E k \in i..(Len(name) + 1) : FnMatchAt(name, k, pat, j + 1)
         ELSE /\ i <= Len(name)
              /\ name[i] = pat[j]
              /\ FnMatchAt(name, i + 1, pat, j + 1)

\* glob.glob1 on one name: hidden names only match a pattern that starts with "."
fnmatch(platform, name, pat) ==
    /\ name # <<>>
    /\ (Head(pat) # "." => Head(name) # ".")
    /\ FnMatchAt(normcase(platform, name), 1, normcase(platform, pat), 1)

\* The entries (files and the directories above them) that exist on disk, each as
\* its list of path components
DiskEntries(disk) ==
    UNION {{SubSeq(SplitAll(f, "/"), 1, n) : n \in 1..Len(SplitAll(f, "/"))} : f \in disk}

\* Whether an entry of the disk matches the glob pattern, component by component
GlobMatches(platform, patparts, entry) ==
    /\ Len(entry) = Len(patparts)
    /\ \A i \in 1..Len(patparts) :
          IF has_magic(patparts[i])
          THEN fnmatch(platform, entry[i], patparts[i])
          ELSE entry[i] = patparts[i]

\* The path glob returns for an entry: the pattern's literal directory as written,
\* then each matched name joined on with os.path.join
GlobbedPath(platform, patparts, entry) ==
    LET m == CHOOSE i \in 1..Len(patparts) :
                 has_magic(patparts[i]) /\ \A k \in 1..(i - 1) : ~has_magic(patparts[k])
    IN IF \E i \in 1..Len(patparts) : has_magic(patparts[i])
       THEN Join(SubSeq(patparts, 1, m - 1), <<"/">>)
            \o <<os_sep(platform)>>
            \o Join(SubSeq(entry, m, Len(entry)), <<os_sep(platform)>>)
       ELSE Join(patparts, <<"/">>)

\* The set of paths glob.glob(pattern) finds
glob(platform, pattern, disk) ==
    LET patparts == SplitAll(pattern, "/")
    IN {GlobbedPath(platform, patparts, e) :
           e \in {d \in DiskEntries(disk) : GlobMatches(platform, patparts, d)}}

\* Every order in which a set can be listed (os.listdir gives no order)
RECURSIVE Orderings(_)
Orderings(S) ==
    IF S = {} THEN {<<>>}
    ELSE UNION {{<<x>> \o r : r \in Orderings(S \ {x})} : x \in S}

(***************************************************************************)
(* re.compile(pattern, re.IGNORECASE).match(path) for the patterns that    *)
(* the templates and COMPONENT_REGEX_LOOKUP produce                        *)
(***************************************************************************)

\* [\d.v]
VersionClass == Digits \cup {".", "v"}
\* [\w\s]
VariantClass == Range(UpperLetters) \cup Range(LowerLetters) \cup Digits \cup {"_"} \cup Whitespace
\* [\d.]
MajorMinorClass == Digits \cup {"."}
\* the alternatives of the suffix group, in the order the regex tries them
SuffixAlternatives == << <<" ","N","o","n","-","c","o","m","m","e","r","c","i","a","l">>, <<" ","P","L","E">> >>

\* a character class under re.IGNORECASE
InClass(c, class, ignorecase) ==
    \/ c \in class
    \/ ignorecase /\ (LowerChar(c) \in class \/ UpperChar(c) \in class)

\* text equality under re.IGNORECASE
SameText(a, b, ignorecase) == IF ignorecase THEN Lower(a) = Lower(b) ELSE a = b

\* one character of regex text against one character of the path
LiteralMatches(e, c, ignorecase) ==
    IF e = "." THEN c # "\n"
    ELSE IF ignorecase THEN LowerChar(e) = LowerChar(c) ELSE e = c

\* the number of consecutive characters of s from position j that are in class
RECURSIVE RunLength(_, _, _, _)
RunLength(s, j, class, ignorecase) ==
    IF j <= Len(s) /\ InClass(s[j], class, ignorecase)
    THEN 1 + RunLength(s, j + 1, class, ignorecase)
    ELSE 0

NoGroups ==
    [ok |-> FALSE, version |-> None, variant |-> None, suffix |-> None,
     major_minor_version |-> None]

SetGroup(g, name, value) ==
    CASE name = "version" -> [g EXCEPT !.version = value]
      [] name = "variant" -> [g EXCEPT !.variant = value]
      [] name = "suffix" -> [g EXCEPT !.suffix = value]
      [] name = "major_minor_version" -> [g EXCEPT !.major_minor_version = value]

\* The backtracking match of pat[i..] against s[j..]: the first match in the
\* regex engine's order (greedy repetitions longest first, alternatives left to
\* right, an optional group tried before it is skipped), or ok = FALSE.
RECURSIVE MatchAt(_, _, _, _, _, _), GreedyGroup(_, _, _, _, _, _, _, _)
MatchAt(pat, i, s, j, g, ic) ==
    IF i > Len(pat) THEN [g EXCEPT !.ok = TRUE]
    ELSE LET e == pat[i]
             rest(k, h) == MatchAt(pat, i + 1, s, k, h, ic)
         IN CASE e = "^" -> IF j = 1 THEN rest(j, g) ELSE NoGroups
              [] e = "$" -> IF j = Len(s) + 1 THEN rest(j, g) ELSE NoGroups
              [] e = RE_version ->
                   GreedyGroup(pat, i, s, j, g, ic, "version",
                               RunLength(s, j, VersionClass, ic))
              [] e = RE_variant ->
                   GreedyGroup(pat, i, s, j, g, ic, "variant",
                               RunLength(s, j, VariantClass, ic))
              [] e = RE_major_minor_version ->
                   GreedyGroup(pat, i, s, j, g, ic, "major_minor_version",
                               RunLength(s, j, MajorMinorClass, ic))
              [] e = RE_same_version ->
                   LET n == Len(g.version)
                   IN IF /\ g.version # None
                         /\ j + n - 1 <= Len(s)
                         /\ SameText(SubSeq(s, j, j + n - 1), g.version, ic)
                      THEN rest(j + n, g)
                      ELSE NoGroups
              [] e = RE_suffix ->
                   LET try(alt) ==
                           IF /\ j + Len(alt) - 1 <= Len(s)
                              /\ SameText(SubSeq(s, j, j + Len(alt) - 1), alt, ic)
                           THEN rest(j + Len(alt),
                                     SetGroup(g, "suffix", SubSeq(s, j, j + Len(alt) - 1)))
                           ELSE NoGroups
                   IN IF try(SuffixAlternatives[1]).ok THEN try(SuffixAlternatives[1])
                      ELSE IF try(SuffixAlternatives[2]).ok THEN try(SuffixAlternatives[2])
                      ELSE rest(j, g)
              [] OTHER ->
                   IF j <= Len(s) /\ LiteralMatches(e, s[j], ic)
                   THEN rest(j + 1, g)
                   ELSE NoGroups

\* a named group over a character class repeated "+": n characters, then n - 1, ...
GreedyGroup(pat, i, s, j, g, ic, name, n) ==
    IF n < 1 THEN NoGroups
    ELSE LET m == MatchAt(pat, i + 1, s, j + n, SetGroup(g, name, SubSeq(s, j, j + n - 1)), ic)
         IN IF m.ok THEN m ELSE GreedyGroup(pat, i, s, j, g, ic, name, n - 1)

\* re.compile(regex_pattern, re.IGNORECASE).match(path); .ok says whether it
\* matched, the other fields are match.groupdict()
re_match(regex_pattern, path, ignorecase) == MatchAt(regex_pattern, 1, path, 1, NoGroups, ignorecase)

(***************************************************************************)
(* Collaborators from sgtk.platform                                        *)
(***************************************************************************)

\* SoftwareVersion(version, product, display_name, path, icon, arguments)
SoftwareVersion(version, product, display_name, path, icon, arguments) ==
    [version |-> version, product |-> product, display_name |-> display_name,
     path |-> path, icon |-> icon, args |-> arguments]

\* The host's list of acceptable versions: none given, or a list of versions
NoVersionFilter == [given |-> FALSE, list |-> <<>>]
VersionFilter(list) == [given |-> TRUE, list |-> list]

\* SoftwareLauncher.is_version_supported: the version is one the host asked for
SuperIsVersionSupported(acceptable, software_version) ==
    \/ ~acceptable.given
    \/ software_version.version \in Range(acceptable.list)

\* The launcher's disk_location, the directory that holds its icons
disk_location == "tk-nuke"

\* os.path.join(directory, name) and os.path.basename of the result
os_path_join(directory, name) == <<directory, name>>
os_path_basename(path) == path[Len(path)]

(***************************************************************************)
(* Methods of NukeLauncher                                                 *)
(***************************************************************************)

\* Mutant: the keywords looked for in the variant as written, not in lower case
_get_icon_from_variant_CaseSensitive(variant) ==
    IF Contains(variant, <<"s","t","u","d","i","o">>)
    THEN os_path_join(disk_location, "icon_studio_256.png")
    ELSE IF Contains(variant, <<"h","i","e","r","o">>)
    THEN os_path_join(disk_location, "icon_hiero_256.png")
    ELSE IF Contains(variant, <<"n","u","k","e","x">>)
    THEN os_path_join(disk_location, "icon_x_256.png")
    ELSE os_path_join(disk_location, "icon_256.png")

_get_icon_from_variant(variant) ==
    IF Contains(Lower(variant), <<"s","t","u","d","i","o">>)
    THEN os_path_join(disk_location, "icon_studio_256.png")
    ELSE IF Contains(Lower(variant), <<"h","i","e","r","o">>)
    THEN os_path_join(disk_location, "icon_hiero_256.png")
    ELSE IF Contains(Lower(variant), <<"n","u","k","e","x">>)
    THEN os_path_join(disk_location, "icon_x_256.png")
    ELSE os_path_join(disk_location, "icon_256.png")

_get_variation_templates_from_version(version) ==
    IF SplitFirst(version, <<".">>) \in {<<"7">>, <<"8">>}
    THEN NUKE_7_8_VARIATION_DISPLAY_NAME_TEMPLATES
    ELSE NUKE_9_OR_HIGHER_VARIATION_DISPLAY_NAME_TEMPLATES

\* Mutant: only major version "8" takes the Nuke 7/8 names
_get_variations_from_version_Only8(version) ==
    IF SplitFirst(version, <<".">>) \in {<<"8">>}
    THEN NUKE_7_8_VARIATIONS
    ELSE NUKE_9_OR_HIGHER_VARIATIONS

_get_variations_from_version(version) ==
    IF SplitFirst(version, <<".">>) \in {<<"7">>, <<"8">>}
    THEN NUKE_7_8_VARIATIONS
    ELSE NUKE_9_OR_HIGHER_VARIATIONS

\* Mutant: the non-commercial test made before the product tests
VariationArguments_NcFirst(variation_template) ==
    (IF Contains(variation_template, <<"N","o","n","-","c","o","m","m","e","r","c","i","a","l">>) THEN <<"--nc">> ELSE <<>>)
    \o (IF Contains(variation_template, <<"S","t","u","d","i","o">>) THEN <<"--studio">>
        ELSE IF Contains(variation_template, <<"A","s","s","i","s","t">>) THEN <<"--nukeassist">>
        ELSE IF Contains(variation_template, <<"N","u","k","e","X">>) THEN <<"--nukex">>
        ELSE IF Contains(variation_template, <<"H","i","e","r","o">>) THEN <<"--hiero">>
        ELSE IF Contains(variation_template, <<"P","L","E">>) THEN <<"--ple">>
        ELSE <<>>)

\* Mutant: the Assist branch appends the NukeX switch
VariationArguments_AssistAsNukeX(variation_template) ==
    (IF Contains(variation_template, <<"S","t","u","d","i","o">>) THEN <<"--studio">>
     ELSE IF Contains(variation_template, <<"A","s","s","i","s","t">>) THEN <<"--nukex">>
     ELSE IF Contains(variation_template, <<"N","u","k","e","X">>) THEN <<"--nukex">>
     ELSE IF Contains(variation_template, <<"H","i","e","r","o">>) THEN <<"--hiero">>
     ELSE IF Contains(variation_template, <<"P","L","E">>) THEN <<"--ple">>
     ELSE <<>>)
    \o (IF Contains(variation_template, <<"N","o","n","-","c","o","m","m","e","r","c","i","a","l">>) THEN <<"--nc">> ELSE <<>>)

\* The arguments _extract_variations_from_path builds for one variation template
VariationArguments(variation_template) ==
    (IF Contains(variation_template, <<"S","t","u","d","i","o">>) THEN <<"--studio">>
     ELSE IF Contains(variation_template, <<"A","s","s","i","s","t">>) THEN <<"--nukeassist">>
     ELSE IF Contains(variation_template, <<"N","u","k","e","X">>) THEN <<"--nukex">>
     ELSE IF Contains(variation_template, <<"H","i","e","r","o">>) THEN <<"--hiero">>
     ELSE IF Contains(variation_template, <<"P","L","E">>) THEN <<"--ple">>
     ELSE <<>>)
    \o (IF Contains(variation_template, <<"N","o","n","-","c","o","m","m","e","r","c","i","a","l">>) THEN <<"--nc">> ELSE <<>>)

\* Mutant: the display name built without the suffix
BundleVariation_NoSuffix(executable_path, match) ==
    SoftwareVersion(match.version, match.variant, match.variant \o <<" ">> \o match.version,
                    executable_path, _get_icon_from_variant(match.variant), <<>>)

\* The one variation a bundle path names (sys.platform == "darwin")
BundleVariation(executable_path, match) ==
    LET executable_version == match.version
        executable_variant == match.variant
        executable_suffix ==
            IF match.suffix = None \/ match.suffix = <<>> THEN <<>> ELSE match.suffix
        display_name ==
            executable_variant \o <<" ">> \o executable_version \o executable_suffix
    IN SoftwareVersion(executable_version, executable_variant, display_name,
                       executable_path, _get_icon_from_variant(executable_variant), <<>>)

\* One variation of a shared launcher executable (win32, linux2)
LauncherVariation(executable_path, executable_version, variation_template) ==
    SoftwareVersion(executable_version,
                    _template_to_variation_name(variation_template),
                    PercentFormat(variation_template, executable_version),
                    executable_path,
                    _get_icon_from_variant(variation_template),
                    VariationArguments(variation_template))

\* Mutant: the variation templates visited last to first
_extract_variations_from_path_Reversed(sys_platform, executable_path, match) ==
    IF sys_platform = "darwin"
    THEN <<BundleVariation(executable_path, match)>>
    ELSE LET templates == _get_variation_templates_from_version(match.version)
         IN [i \in 1..Len(templates) |->
                LauncherVariation(executable_path, match.version,
                                  templates[Len(templates) + 1 - i])]

\* The list of variations the generator yields for one matched path
_extract_variations_from_path(sys_platform, executable_path, match) ==
    IF sys_platform = "darwin"
    THEN <<BundleVariation(executable_path, match)>>
    ELSE LET templates == _get_variation_templates_from_version(match.version)
         IN [i \in 1..Len(templates) |->
                LauncherVariation(executable_path, match.version, templates[i])]

\* Mutant: the check of the product's name left out
is_version_supported_VersionOnly(acceptable, software_version) ==
    SuperIsVersionSupported(acceptable, software_version)

\* Mutant: the check of the base class left out
is_version_supported_ProductOnly(acceptable, software_version) ==
    software_version.product \in Range(_get_variations_from_version(software_version.version))

is_version_supported(acceptable, software_version) ==
    /\ SuperIsVersionSupported(acceptable, software_version)
    /\ software_version.product \in Range(_get_variations_from_version(software_version.version))

minimum_supported_version == <<"7",".","0","v","0">>

\* Mutant: no platform is turned away
PlatformNotSupported_NoCheck(sys_platform) == FALSE

\* sys.platform not in ["darwin", "win32", "linux2"]
PlatformNotSupported(sys_platform) == sys_platform \notin {"darwin", "win32", "linux2"}

\* x.replace("\\", "/")
NormalizeSeparators(path) == Replace(path, <<"\\">>, <<"/">>)

\* Mutant: the tail anchor left out
AnchoredRegex_NoTail(match_template) ==
    <<"^">> \o _format(match_template, COMPONENT_REGEX_LOOKUP)

\* "^%s$" % _format(match_template, COMPONENT_REGEX_LOOKUP)
AnchoredRegex(match_template) ==
    <<"^">> \o _format(match_template, COMPONENT_REGEX_LOOKUP) \o <<"$">>

\* The variations of one path of one template that pass the filter, in the order
\* found: the body of the loops of _find_software_variations and scan_software
VariationsOfPath(sys_platform, acceptable, match_template, executable_path) ==
    LET match == re_match(AnchoredRegex(match_template), executable_path, TRUE)
    IN IF ~match.ok THEN <<>>
       ELSE SelectSeq(_extract_variations_from_path(sys_platform, executable_path, match),
                      LAMBDA v : is_version_supported(acceptable, v))

(***************************************************************************)
(* The environment of one scan: the platform, the files on disk and the    *)
(* host's acceptable versions                                              *)
(***************************************************************************)

\* The most files installed at once, besides the named installations below
MaxInstalled == 2

Platforms == SupportedPlatforms \cup {"cygwin"}

MacBundle(dir_version, variant, version, suffix) ==
    <<"/","A","p","p","l","i","c","a","t","i","o","n","s","/","N","u","k","e">> \o dir_version \o <<"/">> \o variant \o version \o suffix \o <<".","a","p","p">>

WindowsExecutable(dir_version, name) ==
    <<"C",":","/","P","r","o","g","r","a","m"," ","F","i","l","e","s","/","N","u","k","e">> \o dir_version \o <<"/">> \o name

LinuxExecutable(root, dir_version, name) ==
    root \o <<"/","N","u","k","e">> \o dir_version \o <<"/">> \o name

\* The bundles of a Nuke 8.0v4 installation on a Mac
Nuke8MacInstallation ==
    { MacBundle(<<"8",".","0","v","4">>, <<"N","u","k","e">>, <<"8",".","0","v","4">>, <<>>),
      MacBundle(<<"8",".","0","v","4">>, <<"N","u","k","e","X">>, <<"8",".","0","v","4">>, <<>>),
      MacBundle(<<"8",".","0","v","4">>, <<"N","u","k","e">>, <<"8",".","0","v","4">>, <<" ","P","L","E">>),
      MacBundle(<<"8",".","0","v","4">>, <<"N","u","k","e","A","s","s","i","s","t">>, <<"8",".","0","v","4">>, <<>>) }

MacFiles ==
    { MacBundle(<<"8",".","0","v","4">>, <<"N","u","k","e">>, <<"8",".","0","v","4">>, <<" ","P","L","E">>),
      MacBundle(<<"8",".","0","v","4">>, <<"N","u","k","e">>, <<"8",".","0","v","4">>, <<" ","N","o","n","-","c","o","m","m","e","r","c","i","a","l">>),
      MacBundle(<<"8",".","0","v","4">>, <<"N","u","k","e","S","t","u","d","i","o">>, <<"8",".","0","v","4">>, <<>>),
      MacBundle(<<"1","0",".","0","v","5">>, <<"N","u","k","e">>, <<"1","0",".","0","v","5">>, <<>>),
      MacBundle(<<"1","0",".","0","v","5">>, <<"N","u","k","e","X">>, <<"1","0",".","0","v","5">>, <<" ","N","o","n","-","c","o","m","m","e","r","c","i","a","l">>),
      MacBundle(<<"1","0",".","0","v","5">>, <<"N","u","k","e","S","t","u","d","i","o">>, <<"1","0",".","0","v","5">>, <<>>),
      MacBundle(<<"1","0",".","0","v","5">>, <<"H","i","e","r","o">>, <<"1","0",".","0","v","5">>, <<>>),
      MacBundle(<<"1","0",".","0","v","5">>, <<"H","i","e","r","o","P","l","a","y","e","r">>, <<"1","0",".","0","v","5">>, <<>>),
      MacBundle(<<"1","0",".","0","v","5">>, <<"n","u","k","e","x">>, <<"1","0",".","0","v","5">>, <<>>),
      MacBundle(<<"1","0",".","0","v","5">>, <<"N","u","k","e">>, <<"9",".","0","v","1">>, <<>>),
      <<"/","A","p","p","l","i","c","a","t","i","o","n","s","/","N","u","k","e","1","0",".","0","v","5","/","D","o","c","u","m","e","n","t","a","t","i","o","n","/","i","n","d","e","x",".","h","t","m","l">> }

WindowsFiles ==
    { WindowsExecutable(<<"1","0",".","0","v","5">>, <<"N","u","k","e","1","0",".","0",".","e","x","e">>),
      WindowsExecutable(<<"9",".","0","v","1">>, <<"N","u","k","e","9",".","0",".","e","x","e">>),
      WindowsExecutable(<<"8",".","0","v","4">>, <<"N","u","k","e","8",".","0",".","e","x","e">>),
      WindowsExecutable(<<"7",".","0","v","1","0">>, <<"N","u","k","e","7",".","0",".","e","x","e">>),
      WindowsExecutable(<<"6",".","3","v","6">>, <<"N","u","k","e","6",".","3",".","e","x","e">>),
      WindowsExecutable(<<"1","0",".","0","v","5">>, <<"N","u","k","e","C","r","a","s","h","H","a","n","d","l","e","r",".","e","x","e">>),
      WindowsExecutable(<<"1","0",".","0","v","5">>, <<"p","y","t","h","o","n","2","7",".","d","l","l">>) }

LinuxFiles ==
    { LinuxExecutable(<<"/","u","s","r","/","l","o","c","a","l">>, <<"1","0",".","0","v","5">>, <<"N","u","k","e","1","0",".","0">>),
      LinuxExecutable(<<"/","u","s","r","/","l","o","c","a","l">>, <<"9",".","0","v","1">>, <<"N","u","k","e","9",".","0">>),
      LinuxExecutable(<<"/","u","s","r","/","l","o","c","a","l">>, <<"8",".","0","v","4">>, <<"N","u","k","e","8",".","0">>),
      LinuxExecutable(<<"/","u","s","r","/","l","o","c","a","l">>, <<"1","0",".","0","v","5">>, <<"N","u","k","e","1","0",".","0","-","c","r","a","s","h","-","h","a","n","d","l","e","r">>),
      LinuxExecutable(HomeDirectory, <<"1","0",".","0","v","5">>, <<"N","u","k","e","1","0",".","0">>),
      LinuxExecutable(HomeDirectory, <<"9",".","0","v","1">>, <<"N","u","k","e","9",".","0">>),
      LinuxExecutable(HomeDirectory, <<"7",".","0","v","1","0">>, <<"N","u","k","e","7",".","0">>) }

FilesOf(sys_platform) ==
    CASE sys_platform = "darwin" -> MacFiles
      [] sys_platform = "win32" -> WindowsFiles
      [] OTHER -> LinuxFiles

\* The disks a scan is run on: every choice of at most MaxInstalled files of the
\* platform, and the named installations
Disks(sys_platform) ==
    {d \in SUBSET FilesOf(sys_platform) : Cardinality(d) <= MaxInstalled}
    \cup (IF sys_platform = "darwin" THEN {Nuke8MacInstallation} ELSE {})

AcceptableVersions ==
    { NoVersionFilter,
      VersionFilter(<< <<"1","0",".","0","v","5">> >>),
      VersionFilter(<< <<"8",".","0","v","4">> >>) }

(***************************************************************************)
(* State                                                                   *)
(***************************************************************************)

VARIABLES
    sys_platform,        \* sys.platform
    disk,                \* the files on disk
    acceptable,          \* the host's acceptable versions
    pc,                  \* where scan_software is: "call", "find", "iterate", "match",
                         \* "done" (returned), "raised" (ended in an exception)
    match_templates,     \* _find_executables: its argument, None before the table is read
    template_index,      \* _find_executables: the template the loop is at
    glob_patterns,       \* every pattern handed to glob.glob so far
    executable_matches,  \* _find_executables: the dictionary template -> paths
    items,               \* _find_software_variations: the dictionary items not yet
                         \* visited, each <<template, paths not yet visited>>
    software_versions,   \* scan_software: the list it builds and returns
    version,             \* the argument of the two version-list selectors, or None
    variation_templates, \* what _get_variation_templates_from_version returned
    variations           \* what _get_variations_from_version returned

scan_vars == <<sys_platform, disk, acceptable, pc, match_templates, template_index,
               glob_patterns, executable_matches, items, software_versions>>

select_vars == <<version, variation_templates, variations>>

vars == <<scan_vars, select_vars>>

EmptyDict == [t \in {} |-> <<>>]

Init ==
    /\ sys_platform \in Platforms
    /\ disk \in Disks(sys_platform)
    /\ acceptable \in AcceptableVersions
    /\ pc = "call"
    /\ match_templates = None
    /\ template_index = 1
    /\ glob_patterns = <<>>
    /\ executable_matches = EmptyDict
    /\ items = <<>>
    /\ software_versions = <<>>
    /\ version = None
    /\ variation_templates = None
    /\ variations = None

(***************************************************************************)
(* scan_software, step by step                                             *)
(***************************************************************************)

\* scan_software on a platform it does not support: return []
ScanUnsupportedPlatform ==
    /\ pc = "call"
    /\ PlatformNotSupported(sys_platform)
    /\ pc' = "done"
    /\ software_versions' = <<>>
    /\ UNCHANGED <<sys_platform, disk, acceptable, match_templates, template_index,
                   glob_patterns, executable_matches, items, select_vars>>

\* scan_software on a supported platform: the first next() of the generator
\* reads EXECUTABLE_MATCH_TEMPLATES[sys.platform], a KeyError when it has no
\* such key, and calls _find_executables
ScanSupportedPlatform ==
    /\ pc = "call"
    /\ ~PlatformNotSupported(sys_platform)
    /\ IF sys_platform \in DOMAIN EXECUTABLE_MATCH_TEMPLATES
       THEN /\ match_templates' = EXECUTABLE_MATCH_TEMPLATES[sys_platform]
            /\ pc' = "find"
       ELSE /\ match_templates' = match_templates
            /\ pc' = "raised"
    /\ software_versions' = <<>>
    /\ UNCHANGED <<sys_platform, disk, acceptable, template_index, glob_patterns,
                   executable_matches, items, select_vars>>

\* _find_executables: one turn of its loop, the glob of one template
FindExecutables ==
    /\ pc = "find"
    /\ template_index <= Len(match_templates)
    /\ LET match_template == match_templates[template_index]
           glob_pattern == _format(match_template, COMPONENT_GLOB_LOOKUP)
       IN /\ glob_patterns' = Append(glob_patterns, glob_pattern)
          /\ \E matching_paths \in Orderings(glob(sys_platform, glob_pattern, disk)) :
                executable_matches' =
                    IF matching_paths # <<>>
                    THEN (match_template :> MapSeq(NormalizeSeparators, matching_paths))
                         @@ executable_matches
                    ELSE executable_matches
    /\ template_index' = template_index + 1
    /\ UNCHANGED <<sys_platform, disk, acceptable, pc, match_templates, items,
                   software_versions, select_vars>>

\* _find_executables returns and executable_matches.iteritems() starts: a
\* dictionary visits its keys in an order of its own
IterateMatches ==
    /\ pc = "find"
    /\ template_index > Len(match_templates)
    /\ \E order \in Orderings(DOMAIN executable_matches) :
          items' = [i \in 1..Len(order) |-> <<order[i], executable_matches[order[i]]>>]
    /\ pc' = "match"
    /\ UNCHANGED <<sys_platform, disk, acceptable, match_templates, template_index,
                   glob_patterns, executable_matches, software_versions, select_vars>>

\* One turn of the loop over the paths of a template: match the path, expand it
\* into its variations, append those that is_version_supported accepts
ProcessPath ==
    /\ pc = "match"
    /\ items # <<>>
    /\ LET match_template == items[1][1]
           executable_paths == items[1][2]
           accepted == VariationsOfPath(sys_platform, acceptable, match_template,
                                        Head(executable_paths))
       IN /\ software_versions' = software_versions \o accepted
          /\ items' = IF Len(executable_paths) > 1
                      THEN <<<<match_template, Tail(executable_paths)>>>> \o Tail(items)
                      ELSE Tail(items)
    /\ UNCHANGED <<sys_platform, disk, acceptable, pc, match_templates, template_index,
                   glob_patterns, executable_matches, select_vars>>

\* The generator is exhausted: return software_versions
ScanReturn ==
    /\ pc = "match"
    /\ items = <<>>
    /\ pc' = "done"
    /\ UNCHANGED <<sys_platform, disk, acceptable, match_templates, template_index,
                   glob_patterns, executable_matches, items, software_versions, select_vars>>

Next ==
    \/ ScanUnsupportedPlatform
    \/ ScanSupportedPlatform
    \/ FindExecutables
    \/ IterateMatches
    \/ ProcessPath
    \/ ScanReturn

Spec == Init /\ [][Next]_vars

(***************************************************************************)
(* The two version-list selectors as pure functions: a second              *)
(* specification that calls them on every short version string             *)
(***************************************************************************)

\* The longest version string tried, besides the named versions below
MaxVersionLength == 3

VersionCharacters == {"6", "7", "8", "9", "0", ".", "v", "x"}

RECURSIVE StringsUpTo(_, _)
StringsUpTo(alphabet, n) ==
    IF n = 0 THEN {<<>>}
    ELSE LET shorter == StringsUpTo(alphabet, n - 1)
         IN shorter \cup {Append(w, c) : w \in shorter, c \in alphabet}

NamedVersions ==
    { <<"7",".","0","v","0">>, <<"7",".","0","v","1","0">>, <<"8",".","0","v","4">>, <<"6",".","3","v","6">>, <<"9",".","0","v","1">>, <<"1","0",".","0","v","5">>, <<"7","8",".","0","v","1">>,
      <<"l","a","t","e","s","t">>, <<"v","8",".","0">> }

VersionInit ==
    /\ version \in StringsUpTo(VersionCharacters, MaxVersionLength) \cup NamedVersions
    /\ variation_templates = None
    /\ variations = None
    /\ sys_platform = "cygwin"
    /\ disk = {}
    /\ acceptable = NoVersionFilter
    /\ pc = "select"
    /\ match_templates = None
    /\ template_index = 1
    /\ glob_patterns = <<>>
    /\ executable_matches = EmptyDict
    /\ items = <<>>
    /\ software_versions = <<>>

\* Both selectors are called on the version
SelectVariations ==
    /\ pc = "select"
    /\ variation_templates' = _get_variation_templates_from_version(version)
    /\ variations' = _get_variations_from_version(version)
    /\ pc' = "selected"
    /\ UNCHANGED <<version, sys_platform, disk, acceptable, match_templates,
                   template_index, glob_patterns, executable_matches, items,
                   software_versions>>

VersionSpec == VersionInit /\ [][SelectVariations]_vars

(***************************************************************************)
(* Properties                                                              *)
(***************************************************************************)

Returned == pc = "done"

\* The paths _find_executables found, over all templates
FoundPaths == UNION {Range(executable_matches[t]) : t \in DOMAIN executable_matches}

\* Whether a path matches ^template$ under the regex lookup, ignoring case
\* The anchored regex of every path template
AllMatchTemplates ==
    UNION {Range(EXECUTABLE_MATCH_TEMPLATES[p]) : p \in DOMAIN EXECUTABLE_MATCH_TEMPLATES}

TemplateRegex ==
    [t \in AllMatchTemplates |-> <<"^">> \o _format(t, COMPONENT_REGEX_LOOKUP) \o <<"$">>]

FullMatch(match_template, path) == re_match(TemplateRegex[match_template], path, TRUE)

\* The found paths the component extractor accepts, each with its version
MatchedPaths ==
    UNION {{<<path, FullMatch(t, path).version>> :
               path \in {q \in Range(executable_matches[t]) : FullMatch(t, q).ok}} :
              t \in DOMAIN executable_matches}

\* The text of a version before its first "."
MajorPart(v) == SplitFirst(v, <<".">>)

\* The display-name templates of Nuke 7 and 8, and of Nuke 9 and later
LegacyTemplates == << <<"N","u","k","e"," ","%","s">>, <<"N","u","k","e","X"," ","%","s">>, <<"N","u","k","e"," ","%","s"," ","P","L","E">>, <<"N","u","k","e","A","s","s","i","s","t"," ","%","s">> >>

ModernTemplates ==
    << <<"N","u","k","e"," ","%","s">>, <<"N","u","k","e"," ","%","s"," ","N","o","n","-","c","o","m","m","e","r","c","i","a","l">>, <<"N","u","k","e","A","s","s","i","s","t"," ","%","s">>, <<"N","u","k","e","S","t","u","d","i","o"," ","%","s">>,
       <<"N","u","k","e","S","t","u","d","i","o"," ","%","s"," ","N","o","n","-","c","o","m","m","e","r","c","i","a","l">>, <<"N","u","k","e","X"," ","%","s">>, <<"N","u","k","e","X"," ","%","s"," ","N","o","n","-","c","o","m","m","e","r","c","i","a","l">>,
       <<"H","i","e","r","o"," ","%","s">> >>

\* The display-name templates applicable to a version
ApplicableTemplates(v) ==
    IF MajorPart(v) \in {<<"7">>, <<"8">>} THEN LegacyTemplates ELSE ModernTemplates

\* A display-name template with the version in its "%s" slot
DisplayName(template, v) == Replace(template, <<"%","s">>, v)

Nuke8Expected ==
    { <<<<"N","u","k","e"," ","8",".","0","v","4">>, <<"/","A","p","p","l","i","c","a","t","i","o","n","s","/","N","u","k","e","8",".","0","v","4","/","N","u","k","e","8",".","0","v","4",".","a","p","p">>>>,
      <<<<"N","u","k","e","X"," ","8",".","0","v","4">>, <<"/","A","p","p","l","i","c","a","t","i","o","n","s","/","N","u","k","e","8",".","0","v","4","/","N","u","k","e","X","8",".","0","v","4",".","a","p","p">>>>,
      <<<<"N","u","k","e"," ","8",".","0","v","4"," ","P","L","E">>, <<"/","A","p","p","l","i","c","a","t","i","o","n","s","/","N","u","k","e","8",".","0","v","4","/","N","u","k","e","8",".","0","v","4"," ","P","L","E",".","a","p","p">>>>,
      <<<<"N","u","k","e","A","s","s","i","s","t"," ","8",".","0","v","4">>, <<"/","A","p","p","l","i","c","a","t","i","o","n","s","/","N","u","k","e","8",".","0","v","4","/","N","u","k","e","A","s","s","i","s","t","8",".","0","v","4",".","a","p","p">>>> }

\* C2: on darwin, with exactly the four bundles of a Nuke 8.0v4 installation on
\* disk and a host that does not exclude version 8.0v4, scan_software returns
\* exactly 4 variations, named "Nuke 8.0v4", "NukeX 8.0v4", "Nuke 8.0v4 PLE" and
\* "NukeAssist 8.0v4", each with version "8.0v4", each with its own bundle as
\* path, none with launch arguments.
C2_Nuke8BundlesGiveFourVariations ==
    (/\ Returned
     /\ sys_platform = "darwin"
     /\ disk = {p[2] : p \in Nuke8Expected}
     /\ (acceptable.given => <<"8",".","0","v","4">> \in Range(acceptable.list)))
    => /\ Len(software_versions) = 4
       /\ {<<v.display_name, v.path>> : v \in Range(software_versions)} = Nuke8Expected
       /\ \A v \in Range(software_versions) : v.version = <<"8",".","0","v","4">> /\ v.args = <<>>

C2_Witness ==
    /\ Returned
    /\ sys_platform = "darwin"
    /\ disk = Nuke8MacInstallation
    /\ acceptable = VersionFilter(<< <<"8",".","0","v","4">> >>)
    /\ Len(software_versions) = 4
    /\ \E i \in 1..4 :
          /\ software_versions[i].display_name = <<"N","u","k","e"," ","8",".","0","v","4"," ","P","L","E">>
          /\ software_versions[i].path = <<"/","A","p","p","l","i","c","a","t","i","o","n","s","/","N","u","k","e","8",".","0","v","4","/","N","u","k","e","8",".","0","v","4"," ","P","L","E",".","a","p","p">>

\* C3: every variation scan_software returns has a display name that is one of
\* the display-name templates applicable to its version (the legacy list for
\* major part "7" or "8", the modern list otherwise) with the version in place
\* of "%s"; an installed item that corresponds to no such template gives no
\* returned variation.
C3_DisplayNamesComeFromTemplates ==
    Returned =>
    \A v \in Range(software_versions) :
        v.display_name \in {DisplayName(t, v.version) : t \in Range(ApplicableTemplates(v.version))}

\* Every variation the expander yields for the found paths the regex accepts
ExpandedVariations ==
    UNION {UNION {Range(_extract_variations_from_path(sys_platform, path, FullMatch(t, path))) :
                     path \in {q \in Range(executable_matches[t]) : FullMatch(t, q).ok}} :
              t \in DOMAIN executable_matches}

\* The product names of the display-name templates applicable to a version
ProductNames(v) ==
    {Strip(Replace(Replace(t, <<"%","s">>, <<>>), <<" "," ">>, <<" ">>)) : t \in Range(ApplicableTemplates(v))}

\* C4: when the host gives acceptable versions, every returned variation has one
\* of them as its version, and every variation of a found installation that has
\* an acceptable version and a product of its version's list is returned: with
\* 9.0v1 and 10.0v5 found and the list ["10.0v5"], the 10.0v5 variations are
\* returned and no 9.0v1 variation is.
C4_OnlyAcceptableVersionsReturned ==
    acceptable.given =>
        /\ \A v \in Range(software_versions) : v.version \in Range(acceptable.list)
        /\ Returned =>
              \A v \in ExpandedVariations :
                  (v.version \in Range(acceptable.list) /\ v.product \in ProductNames(v.version))
                  => v \in Range(software_versions)

C4_Witness ==
    /\ Returned
    /\ sys_platform = "linux2"
    /\ acceptable = VersionFilter(<< <<"1","0",".","0","v","5">> >>)
    /\ disk = { <<"/","u","s","r","/","l","o","c","a","l","/","N","u","k","e","9",".","0","v","1","/","N","u","k","e","9",".","0">>, <<"/","u","s","r","/","l","o","c","a","l","/","N","u","k","e","1","0",".","0","v","5","/","N","u","k","e","1","0",".","0">> }
    /\ Cardinality(FoundPaths) = 2
    /\ Len(software_versions) = 8
    /\ \A i \in 1..8 : software_versions[i].version = <<"1","0",".","0","v","5">>

\* The path template whose glob found a path
TemplateOf(path) ==
    CHOOSE t \in DOMAIN executable_matches : path \in Range(executable_matches[t])

\* The place of x in a list
IndexIn(list, x) == CHOOSE i \in 1..Len(list) : list[i] = x

\* The places of a returned variation: of its path template in the platform's
\* list, of its path in the glob's result, of its variation template in its list
TemplateRank(v) == IndexIn(EXECUTABLE_MATCH_TEMPLATES[sys_platform], TemplateOf(v.path))

PathRank(v) == IndexIn(executable_matches[TemplateOf(v.path)], v.path)

VariationRank(v) ==
    IF sys_platform = "darwin" THEN 1
    ELSE CHOOSE i \in 1..Len(ApplicableTemplates(v.version)) :
             DisplayName(ApplicableTemplates(v.version)[i], v.version) = v.display_name

\* For each variation of a list, its <<template, path, variation>> ranks
Ranks(list) ==
    [i \in 1..Len(list) |->
        <<TemplateRank(list[i]), PathRank(list[i]), VariationRank(list[i])>>] \o <<>>

\* a before b in the order of <<path, variation>> ranks
Before(a, b) == a[1] < b[1] \/ (a[1] = b[1] /\ a[2] < b[2])

\* C5: the returned list is in discovery order: by the place of the variation's
\* path template in the platform's template list, then by the place of its path
\* in the glob's result, then by the place of its variation template.
C5_DiscoveryOrderAcrossTemplates ==
    LET rank == Ranks(software_versions)
    IN Returned =>
       \A i, j \in 1..Len(software_versions) :
          i < j => \/ rank[i][1] < rank[j][1]
                   \/ rank[i][1] = rank[j][1] /\ Before(Tail(rank[i]), Tail(rank[j]))

\* C5 as amended: the variations of one path template are next to one another, in
\* the order of their paths in the glob's result and, within one path, in the
\* order of the variation-template list; filtering removes entries and never
\* reorders them. The order among the path templates is the order in which the
\* dictionary of matches is iterated, not the order of the template list.
C5_DiscoveryOrderWithinTemplate ==
    LET rank == Ranks(software_versions)
    IN Returned =>
       \A i, j \in 1..Len(software_versions) :
          (i < j /\ rank[i][1] = rank[j][1])
          => /\ Before(Tail(rank[i]), Tail(rank[j]))
             /\ \A k \in i..j : rank[k][1] = rank[i][1]

C5_Witness ==
    /\ Returned
    /\ sys_platform = "linux2"
    /\ \E i, j \in 1..Len(software_versions) :
          /\ i < j
          /\ software_versions[i].path = <<"/","u","s","r","/","l","o","c","a","l","/","N","u","k","e","9",".","0","v","1","/","N","u","k","e","9",".","0">>
          /\ software_versions[j].path = <<"/","u","s","r","/","l","o","c","a","l","/","N","u","k","e","1","0",".","0","v","5","/","N","u","k","e","1","0",".","0">>
    /\ executable_matches[EXECUTABLE_MATCH_TEMPLATES["linux2"][1]]
           = << <<"/","u","s","r","/","l","o","c","a","l","/","N","u","k","e","9",".","0","v","1","/","N","u","k","e","9",".","0">>, <<"/","u","s","r","/","l","o","c","a","l","/","N","u","k","e","1","0",".","0","v","5","/","N","u","k","e","1","0",".","0">> >>
    /\ Len(software_versions) = 16

\* No template of the platform has a glob match on disk
NoGlobMatches ==
    \A i \in 1..Len(EXECUTABLE_MATCH_TEMPLATES[sys_platform]) :
        glob(sys_platform,
             _format(EXECUTABLE_MATCH_TEMPLATES[sys_platform][i], COMPONENT_GLOB_LOOKUP),
             disk) = {}

\* C6: scan_software never ends in an error; on a platform other than darwin,
\* win32 and linux2 it returns [] having read neither the template table nor the
\* disk; on a supported platform where no template's glob matches a path it
\* returns [].
C6_ScanNeverFails ==
    /\ pc # "raised"
    /\ (Returned /\ sys_platform \notin {"darwin", "win32", "linux2"})
       => /\ software_versions = <<>>
          /\ glob_patterns = <<>>
          /\ match_templates = None
    /\ (Returned /\ sys_platform \in {"darwin", "win32", "linux2"} /\ NoGlobMatches)
       => software_versions = <<>>

C6_Witness ==
    /\ Returned
    /\ sys_platform = "cygwin"
    /\ <<"/","u","s","r","/","l","o","c","a","l","/","N","u","k","e","1","0",".","0","v","5","/","N","u","k","e","1","0",".","0">> \in disk
    /\ software_versions = <<>>
    /\ glob_patterns = <<>>

\* C7: every path the finder returns for a template also matches the template's
\* anchored regex, so the component extractor skips no path.
C7_GlobMatchesAreRegexMatches ==
    Returned =>
    \A t \in DOMAIN executable_matches :
        \A path \in Range(executable_matches[t]) : FullMatch(t, path).ok

\* C7 as amended: the glob form of a template accepts paths its anchored regex
\* rejects; the component extractor skips each of them, so every returned
\* variation has a path the finder returned for a template whose anchored regex
\* the path matches, and a found path the regex rejects gives no variation.
C7_RegexFiltersGlobMatches ==
    LET returned_paths == {v.path : v \in Range(software_versions)}
    IN Returned =>
       /\ \A path \in returned_paths :
             \E t \in DOMAIN executable_matches :
                 path \in Range(executable_matches[t]) /\ FullMatch(t, path).ok
       /\ \A t \in DOMAIN executable_matches :
             \A path \in Range(executable_matches[t]) :
                 ~FullMatch(t, path).ok => path \notin returned_paths

C7_Witness ==
    /\ Returned
    /\ sys_platform = "win32"
    /\ <<"C",":","/","P","r","o","g","r","a","m"," ","F","i","l","e","s","/","N","u","k","e","1","0",".","0","v","5","/","N","u","k","e","C","r","a","s","h","H","a","n","d","l","e","r",".","e","x","e">> \in FoundPaths
    /\ <<"C",":","/","P","r","o","g","r","a","m"," ","F","i","l","e","s","/","N","u","k","e","1","0",".","0","v","5","/","N","u","k","e","1","0",".","0",".","e","x","e">> \in FoundPaths
    /\ Len(software_versions) = 8
    /\ \A i \in 1..8 :
          software_versions[i].path = <<"C",":","/","P","r","o","g","r","a","m"," ","F","i","l","e","s","/","N","u","k","e","1","0",".","0","v","5","/","N","u","k","e","1","0",".","0",".","e","x","e">>

\* The product names of the two template lists
LegacyNames == << <<"N","u","k","e">>, <<"N","u","k","e","X">>, <<"N","u","k","e"," ","P","L","E">>, <<"N","u","k","e","A","s","s","i","s","t">> >>

ModernNames ==
    << <<"N","u","k","e">>, <<"N","u","k","e"," ","N","o","n","-","c","o","m","m","e","r","c","i","a","l">>, <<"N","u","k","e","A","s","s","i","s","t">>, <<"N","u","k","e","S","t","u","d","i","o">>,
       <<"N","u","k","e","S","t","u","d","i","o"," ","N","o","n","-","c","o","m","m","e","r","c","i","a","l">>, <<"N","u","k","e","X">>, <<"N","u","k","e","X"," ","N","o","n","-","c","o","m","m","e","r","c","i","a","l">>, <<"H","i","e","r","o">> >>

\* The version is "7" or "8", or starts with "7." or "8."
MajorIs7Or8(v) ==
    /\ v # <<>>
    /\ v[1] \in {"7", "8"}
    /\ (Len(v) > 1 => v[2] = ".")

\* C8: both selectors choose by the text of the version before its first ".":
\* the Nuke 7/8 list exactly when that text is "7" or "8", the Nuke 9+ list for
\* every other string; and the names the filter uses are, entry by entry, the
\* names of the templates the expander uses.
C8_VersionListSelection ==
    pc = "selected" =>
        /\ variation_templates = IF MajorIs7Or8(version) THEN LegacyTemplates ELSE ModernTemplates
        /\ variations = IF MajorIs7Or8(version) THEN LegacyNames ELSE ModernNames
        /\ Len(variations) = Len(variation_templates)
        /\ \A i \in 1..Len(variations) :
              variations[i] = Replace(variation_templates[i], <<" ","%","s">>, <<>>)

C8_Witness ==
    /\ pc = "selected"
    /\ version = <<"7",".","0","v","0">>
    /\ variation_templates = LegacyTemplates
    /\ variations[3] = <<"N","u","k","e"," ","P","L","E">>

\* The icon file the first-match rule gives for a display name
ExpectedIcon(display_name) ==
    IF Contains(Lower(display_name), <<"s","t","u","d","i","o">>) THEN "icon_studio_256.png"
    ELSE IF Contains(Lower(display_name), <<"h","i","e","r","o">>) THEN "icon_hiero_256.png"
    ELSE IF Contains(Lower(display_name), <<"n","u","k","e","x">>) THEN "icon_x_256.png"
    ELSE "icon_256.png"

\* C9: the icon of every returned variation is the one the first-match rule gives
\* for its display name in lower case: "studio", else "hiero", else "nukex",
\* else the default icon.
C9_IconFollowsDisplayName ==
    Returned =>
    \A v \in Range(software_versions) :
        os_path_basename(v.icon) = ExpectedIcon(v.display_name)

C9_Witness ==
    /\ Returned
    /\ sys_platform = "darwin"
    /\ \E v \in Range(software_versions) :
          /\ v.display_name = <<"N","u","k","e","S","t","u","d","i","o"," ","1","0",".","0","v","5">>
          /\ os_path_basename(v.icon) = "icon_studio_256.png"
    /\ \E v \in Range(software_versions) :
          /\ v.display_name = <<"N","u","k","e","X"," ","1","0",".","0","v","5"," ","N","o","n","-","c","o","m","m","e","r","c","i","a","l">>
          /\ os_path_basename(v.icon) = "icon_x_256.png"

\* The five keywords and the switch of each
KeywordSwitches ==
    { <<<<"S","t","u","d","i","o">>, "--studio">>, <<<<"A","s","s","i","s","t">>, "--nukeassist">>, <<<<"N","u","k","e","X">>, "--nukex">>,
      <<<<"H","i","e","r","o">>, "--hiero">>, <<<<"P","L","E">>, "--ple">> }

\* The display-name template a returned variation was made from
VariationTemplateOf(v) ==
    CHOOSE t \in Range(ApplicableTemplates(v.version)) :
        DisplayName(t, v.version) = v.display_name

\* The switches of the keywords that occur in a template
SwitchesOf(template) == {k[2] : k \in {q \in KeywordSwitches : Contains(template, q[1])}}

\* ["--nc"] for a template that contains "Non-commercial", [] otherwise
NcArguments(template) ==
    IF Contains(template, <<"N","o","n","-","c","o","m","m","e","r","c","i","a","l">>) THEN <<"--nc">> ELSE <<>>

\* C10: on win32 and linux2 exactly one of the keywords Studio, Assist, NukeX,
\* Hiero, PLE occurs in the template of every returned variation, whose
\* arguments are that keyword's switch, followed by --nc exactly when the
\* template contains "Non-commercial".
C10_ExactlyOneKeywordPerTemplate ==
    (Returned /\ sys_platform \in {"win32", "linux2"}) =>
        \A v \in Range(software_versions) :
            LET t == VariationTemplateOf(v)
            IN /\ Cardinality(SwitchesOf(t)) = 1
               /\ \E switch \in SwitchesOf(t) : v.args = <<switch>> \o NcArguments(t)

\* C10 as amended: at most one of the five keywords occurs in a template, and
\* none in "Nuke %s" and "Nuke %s Non-commercial"; the arguments are the switch
\* of the keyword that occurs, if one does, followed by --nc exactly when the
\* template contains "Non-commercial".
C10_AtMostOneKeywordPerTemplate ==
    (Returned /\ sys_platform \in {"win32", "linux2"}) =>
        \A v \in Range(software_versions) :
            LET t == VariationTemplateOf(v)
            IN /\ Cardinality(SwitchesOf(t)) <= 1
               /\ (SwitchesOf(t) = {} <=> t \in {<<"N","u","k","e"," ","%","s">>, <<"N","u","k","e"," ","%","s"," ","N","o","n","-","c","o","m","m","e","r","c","i","a","l">>})
               /\ (SwitchesOf(t) = {} => v.args = NcArguments(t))
               /\ \A switch \in SwitchesOf(t) : v.args = <<switch>> \o NcArguments(t)

C10_Witness ==
    /\ Returned
    /\ sys_platform = "win32"
    /\ \E v \in Range(software_versions) :
          v.display_name = <<"N","u","k","e"," ","1","0",".","0","v","5">> /\ v.args = <<>>
    /\ \E v \in Range(software_versions) :
          v.display_name = <<"N","u","k","e","S","t","u","d","i","o"," ","1","0",".","0","v","5"," ","N","o","n","-","c","o","m","m","e","r","c","i","a","l">> /\ v.args = <<"--studio", "--nc">>
    /\ \E v \in Range(software_versions) :
          v.display_name = <<"N","u","k","e"," ","8",".","0","v","4"," ","P","L","E">> /\ v.args = <<"--ple">>

\* Whether the host accepts a variation's version
AcceptedByHost(v) == ~acceptable.given \/ v.version \in Range(acceptable.list)

\* The expanded variations that the host accepts and whose product is a name of
\* the list applicable to their version
FilteredExpansion ==
    {v \in ExpandedVariations : AcceptedByHost(v) /\ v.product \in ProductNames(v.version)}

=============================================================================
